---- MODULE Spec2Model ----
(***************************************************************************)
(* LightingCompositor (src/lighting_compositor.py): overlays a fixture     *)
(* image on a house image at clamped placements and builds a dilated,      *)
(* blurred inpainting mask.                                                *)
(*                                                                         *)
(* Images are modelled pixel by pixel with symbolic pixel values.  An RGBA *)
(* pixel is a record [src, night, layers, a]: the position of the house    *)
(* pixel it derives from, how many times the night filter was applied to   *)
(* it, how many fixture layers were blended over it, and its alpha.  A     *)
(* mask ("L") pixel is 0 or 255.  Image objects live in a heap keyed by     *)
(* allocation site so that in-place mutation (paste, rectangle) and        *)
(* aliasing are visible.                                                   *)
(*                                                                         *)
(* Floats are modelled as exact rationals <<num, den>>; the scale factors  *)
(* and dilations drawn below are values whose float products are exact or  *)
(* truncate to the same integer as the exact product.                      *)
(***************************************************************************)
EXTENDS Integers, Sequences, FiniteSets, TLC

VARIABLES
    cfg,      \* constructor arguments kept on the instance (lines 24-29)
    disk,     \* the two input files and the two output files
    self,     \* self.house, self.fixture, self.composite, self.mask (references)
    heap,     \* image objects by allocation site
    trace,    \* library calls made by the last method call, in order
    raised,   \* exception the last method call ended with, or None
    lastOp,   \* the last method called
    geo       \* inputs and locals of the stand-alone geometry computation

vars == <<cfg, disk, self, heap, trace, raised, lastOp, geo>>

None == "None"

\* No image: an unallocated heap slot, an output file not written yet
NoImage == [mode |-> None]

----------------------------------------------------------------------------
(* Bounds *)

MaxDim == 2          \* house height; house width ranges over 1..MaxDim
MaxPlacements == 2   \* length of the coordinates list
MaxGeo == 4          \* house sizes of the stand-alone geometry runs
MaxGeoFix == 3       \* fixture sizes of the stand-alone geometry runs

\* scale_factor values (> 0), as <<numerator, denominator>>
ScaleFactors == {<<1, 1>>, <<3, 2>>}

\* mask_dilation_percent values (>= 0), as <<numerator, denominator>>
Dilations == {<<0, 1>>, <<3, 1>>}

\* scale_factor values of the stand-alone geometry runs
GeoScaleFactors == {<<1, 5>>, <<1, 2>>, <<7, 8>>, <<1, 1>>, <<3, 2>>}

----------------------------------------------------------------------------
(* Arithmetic of the source *)

Max(a, b) == IF a >= b THEN a ELSE b

Min(a, b) == IF a <= b THEN a ELSE b

\* int(n/d) for d > 0: truncation toward zero
IntTrunc(n, d) == IF n >= 0 THEN n \div d ELSE -((-n) \div d)

\* round(n/d) for n >= 0, d > 0: nearest integer, ties to even (Python 3)
Round(n, d) ==
    LET q == n \div d
        r == n % d
    IN  IF 2 * r < d THEN q
        ELSE IF 2 * r > d THEN q + 1
        ELSE IF q % 2 = 0 THEN q ELSE q + 1

----------------------------------------------------------------------------
(* Images *)

Pixels(w, h) == (0 .. w - 1) \X (0 .. h - 1)

\* Image.new(mode, size, colour)
ImageNew(mode, w, h, colour) ==
    [mode |-> mode, width |-> w, height |-> h,
     px |-> [p \in Pixels(w, h) |-> colour], blur |-> 0]

\* A house file of the given size: an RGB image, every pixel distinct
HouseFile(w, h) ==
    [mode |-> "RGB", width |-> w, height |-> h,
     px |-> [p \in Pixels(w, h) |->
                [src |-> p, night |-> 0, layers |-> 0, a |-> None]],
     blur |-> 0]

\* A fixture file: its size and the (uniform) alpha of its pixels
FixtureFile(w, h, alpha) ==
    [mode |-> "RGBA", width |-> w, height |-> h, alpha |-> alpha]

\* Image.convert(mode) on a pixel image
Convert(img, mode) ==
    [img EXCEPT !.mode = mode,
                !.px = [p \in DOMAIN img.px |->
                          [img.px[p] EXCEPT !.a =
                              IF mode = "RGBA"
                              THEN (IF img.px[p].a = None THEN 255 ELSE img.px[p].a)
                              ELSE None]]]

\* The pixels an image paste or a rectangle fill with corners (x0, y0) and
\* (x1, y1), both inclusive, reaches in a w x h image (the rest is clipped)
Box(x0, y0, x1, y1, w, h) ==
    {p \in Pixels(w, h) : p[1] >= x0 /\ p[1] <= x1 /\ p[2] >= y0 /\ p[2] <= y1}

\* Image.paste(src, (x, y), mask=src): blends src over the region
\* [x, x + src.width) x [y, y + src.height) where the mask (src's alpha)
\* is non-zero; a zero mask leaves the destination pixel untouched
Paste(img, src, x, y) ==
    LET region == Box(x, y, x + src.width - 1, y + src.height - 1,
                      img.width, img.height)
    IN  [img EXCEPT !.px = [p \in DOMAIN img.px |->
            IF p \in region /\ src.alpha > 0
            THEN [img.px[p] EXCEPT !.layers = @ + 1]
            ELSE img.px[p]]]

\* ImageDraw.rectangle([x0, y0, x1, y1], fill): fills the bounding box,
\* which is inclusive of both corner points
DrawRectangle(img, x0, y0, x1, y1, fill) ==
    LET region == Box(x0, y0, x1, y1, img.width, img.height)
    IN  [img EXCEPT !.px = [p \in DOMAIN img.px |->
            IF p \in region THEN fill ELSE img.px[p]]]

\* Image.filter(ImageFilter.GaussianBlur(radius)): a new image of the same
\* size; the blurred values are kept symbolic as (source pixels, radius)
GaussianBlur(img, radius) == [img EXCEPT !.blur = radius]

----------------------------------------------------------------------------
(* The world a method call runs in and changes *)

World == [self |-> self, heap |-> heap, disk |-> disk, trace |-> <<>>,
          raised |-> None]

\* A library call: its name, the clamped top-left it was made for (or <<>>)
\* and its numeric arguments (or <<>>)
Event(name, at, arg) == [ev |-> name, at |-> at, arg |-> arg]

Log(w, name, at, arg) == [w EXCEPT !.trace = Append(@, Event(name, at, arg))]

Raise(w, exc) == [w EXCEPT !.raised = exc]

----------------------------------------------------------------------------
(* LightingCompositor *)

\* _load_images (lines 36-39); houseOk, fixtureOk: whether each file opens
\* and decodes
_load_images(w, houseOk, fixtureOk) ==
    IF ~houseOk THEN Raise(Log(w, "open_failed", <<>>, <<>>), "OSError")
    ELSE
      LET w1 == Log([w EXCEPT !.self.house = "house",
                              !.heap.house = Convert(w.disk.house, "RGBA")],
                    "open_house", <<>>, <<>>)
      IN  IF ~fixtureOk
          THEN Raise(Log(w1, "open_failed", <<>>, <<>>), "OSError")
          ELSE Log([w1 EXCEPT !.self.fixture = "fixture",
                              !.heap.fixture = w.disk.fixture],
                   "open_fixture", <<>>, <<>>)

\* Variant: the product rounded to the nearest integer instead of truncated
ScaledDim_rounded(dim, sf) == Max(1, Round(dim * sf[1], sf[2]))

\* max(1, int(dimension * scale_factor)) (lines 43 and 44)
ScaledDim(dim, sf) == Max(1, IntTrunc(dim * sf[1], sf[2]))

\* _resize_fixture (lines 41-45): a new image, the fixture resized
_resize_fixture(fixture, scale_factor) ==
    [fixture EXCEPT !.width = ScaledDim(fixture.width, scale_factor),
                    !.height = ScaledDim(fixture.height, scale_factor)]

\* _apply_night_filter (lines 47-54): a new image, darkened and tinted
_apply_night_filter(img) ==
    [img EXCEPT !.px = [p \in DOMAIN img.px |->
                          [img.px[p] EXCEPT !.night = @ + 1]]]

\* Variant: the upper bound house.width - fw, house.height - fh left out
_clamp_position_no_upper(cx, cy, fw, fh, W, H) ==
    << Max(0, cx - (fw \div 2)), Max(0, cy - (fh \div 2)) >>

\* Variant: half the size rounded up instead of down
_clamp_position_half_up(cx, cy, fw, fh, W, H) ==
    << Max(0, Min(cx - ((fw + 1) \div 2), W - fw)),
       Max(0, Min(cy - ((fh + 1) \div 2), H - fh)) >>

\* _clamp_position (lines 56-62) for a house of size W x H
_clamp_position(cx, cy, fw, fh, W, H) ==
    << Max(0, Min(cx - (fw \div 2), W - fw)),
       Max(0, Min(cy - (fh \div 2), H - fh)) >>

\* Image.copy(): a new object (allocated at `site`) with the same pixels
Copy(w, site, ref) == [w EXCEPT !.heap[site] = w.heap[ref]]

\* Variant: the night filter applied whatever the flag says
StartComposite_always_filter(w, night) ==
    LET c == Copy(w, "composite", w.self.house)
    IN  Log([c EXCEPT !.self.composite = "composite",
                      !.heap.composite = _apply_night_filter(c.heap.composite)],
            "night_filter", <<>>, <<>>)

\* Variant: without the filter self.composite is the house object itself,
\* not a copy of it
StartComposite_no_copy(w, night) ==
    IF night
    THEN LET c == Copy(w, "composite", w.self.house)
         IN  Log([c EXCEPT !.self.composite = "composite",
                           !.heap.composite = _apply_night_filter(c.heap.composite)],
                 "night_filter", <<>>, <<>>)
    ELSE [w EXCEPT !.self.composite = w.self.house]

\* lines 69-73: self.composite becomes a filtered or plain copy of the house
StartComposite(w, night) ==
    IF night
    THEN LET c == Copy(w, "composite", w.self.house)
         IN  Log([c EXCEPT !.self.composite = "composite",
                           !.heap.composite = _apply_night_filter(c.heap.composite)],
                 "night_filter", <<>>, <<>>)
    ELSE [Copy(w, "composite", w.self.house) EXCEPT !.self.composite = "composite"]

\* lines 76-79: paste the resized fixture at each clamped coordinate, in order
RECURSIVE PasteAll(_, _, _, _)
PasteAll(w, fr, coords, i) ==
    IF i > Len(coords) THEN w
    ELSE
      LET house == w.heap[w.self.house]
          xy == _clamp_position(coords[i][1], coords[i][2], fr.width, fr.height,
                                house.width, house.height)
          c == w.self.composite
          w1 == [w EXCEPT !.heap[c] = Paste(w.heap[c], fr, xy[1], xy[2])]
      IN  PasteAll(Log(w1, "paste", xy, <<>>), fr, coords, i + 1)

\* build_composite (lines 64-81)
build_composite(w, c, houseOk, fixtureOk) ==
    LET w1 == _load_images(w, houseOk, fixtureOk)
    IN  IF w1.raised # None THEN w1
        ELSE LET fr == _resize_fixture(w1.heap[w1.self.fixture], c.scale_factor)
                 w2 == StartComposite(w1, c.apply_night_filter)
             IN  PasteAll(w2, fr, c.coordinates, 1)

\* int(dimension * mask_dilation_percent / 2) (lines 96 and 97)
Pad(dim, dilation) == IntTrunc(dim * dilation[1], dilation[2] * 2)

\* Variant: the "or 1" left out
BlurRadius_no_floor(pad_x, pad_y) == Max(pad_x, pad_y) \div 2

\* max(pad_x, pad_y) // 2 or 1 (line 109)
BlurRadius(pad_x, pad_y) ==
    LET q == Max(pad_x, pad_y) \div 2
    IN  IF q = 0 THEN 1 ELSE q

\* Variant: the far corner pulled in by one pixel
MaskBox_half_open(x, y, fw, fh, pad_x, pad_y, W, H) ==
    << Max(0, x - pad_x), Max(0, y - pad_y),
       Min(W, x + fw + pad_x) - 1, Min(H, y + fh + pad_y) - 1 >>

\* Variant: the fixture's own size left out of the far corner
MaskBox_no_size(x, y, fw, fh, pad_x, pad_y, W, H) ==
    << Max(0, x - pad_x), Max(0, y - pad_y),
       Min(W, x + pad_x), Min(H, y + pad_y) >>

\* lines 102-105: the corners handed to draw.rectangle for the fixture
\* clamped to (x, y)
MaskBox(x, y, fw, fh, pad_x, pad_y, W, H) ==
    << Max(0, x - pad_x), Max(0, y - pad_y),
       Min(W, x + fw + pad_x), Min(H, y + fh + pad_y) >>

\* lines 99-106: draw the dilated rectangle of each coordinate, in order
RECURSIVE DrawAll(_, _, _, _, _, _)
DrawAll(w, fr, pad_x, pad_y, coords, i) ==
    IF i > Len(coords) THEN w
    ELSE
      LET house == w.heap[w.self.house]
          xy == _clamp_position(coords[i][1], coords[i][2], fr.width, fr.height,
                                house.width, house.height)
          b == MaskBox(xy[1], xy[2], fr.width, fr.height, pad_x, pad_y,
                       house.width, house.height)
          m == w.self.mask
          w1 == [w EXCEPT !.heap[m] =
                    DrawRectangle(w.heap[m], b[1], b[2], b[3], b[4], 255)]
      IN  DrawAll(Log(w1, "rectangle", xy, b), fr, pad_x, pad_y, coords, i + 1)

\* Variant: width and height of the size swapped
NewMask_swapped(house) == ImageNew("L", house.height, house.width, 0)

\* line 92: Image.new("L", self.house.size, 0)
NewMask(house) == ImageNew("L", house.width, house.height, 0)

\* build_mask (lines 83-111)
build_mask(w, c, houseOk, fixtureOk) ==
    LET w1 == IF w.self.house = None
              THEN _load_images(w, houseOk, fixtureOk)
              ELSE w
    IN  IF w1.raised # None THEN w1
        ELSE IF w1.self.fixture = None THEN Raise(w1, "AttributeError")
        ELSE
          LET fr == _resize_fixture(w1.heap[w1.self.fixture], c.scale_factor)
              house == w1.heap[w1.self.house]
              w2 == Log([w1 EXCEPT !.self.mask = "mask",
                                   !.heap.mask = NewMask(house)],
                        "new_mask", <<>>, <<>>)
              pad_x == Pad(fr.width, c.mask_dilation_percent)
              pad_y == Pad(fr.height, c.mask_dilation_percent)
              w3 == DrawAll(w2, fr, pad_x, pad_y, c.coordinates, 1)
              radius == BlurRadius(pad_x, pad_y)
          IN  Log([w3 EXCEPT !.heap.mask = GaussianBlur(w3.heap.mask, radius)],
                  "blur", <<>>, <<radius>>)

\* lines 123-124: the two saves; each may fail (destination unwritable)
SaveOutputs(w, compositeOk, maskOk) ==
    IF ~compositeOk THEN Raise(Log(w, "save_failed", <<>>, <<>>), "OSError")
    ELSE
      LET w1 == Log([w EXCEPT !.disk.compositeOut =
                                  Convert(w.heap[w.self.composite], "RGB")],
                    "save_composite", <<>>, <<>>)
      IN  IF ~maskOk THEN Raise(Log(w1, "save_failed", <<>>, <<>>), "OSError")
          ELSE Log([w1 EXCEPT !.disk.maskOut = w1.heap[w1.self.mask]],
                   "save_mask", <<>>, <<>>)

\* Variant: both output files are created (empty) before anything is loaded
run_outputs_first(w, c, houseOk, fixtureOk, compositeOk, maskOk) ==
    LET w0 == [w EXCEPT !.disk.compositeOut = [mode |-> "empty"],
                        !.disk.maskOut = [mode |-> "empty"]]
        wc == build_composite(w0, c, houseOk, fixtureOk)
    IN  IF wc.raised # None THEN wc
        ELSE LET wm == build_mask(wc, c, houseOk, fixtureOk)
             IN  IF wm.raised # None THEN wm
                 ELSE SaveOutputs(wm, compositeOk, maskOk)

\* run (lines 113-129)
run(w, c, houseOk, fixtureOk, compositeOk, maskOk) ==
    LET wc == build_composite(w, c, houseOk, fixtureOk)
    IN  IF wc.raised # None THEN wc
        ELSE LET wm == build_mask(wc, c, houseOk, fixtureOk)
             IN  IF wm.raised # None THEN wm
                 ELSE SaveOutputs(wm, compositeOk, maskOk)

----------------------------------------------------------------------------
(* The instance and its callers *)

\* Placement centres: a point near the top-left corner, and a point left of
\* and below every narrow house
Points == {<<1, 1>>, <<-1, MaxDim>>}

CoordinateLists == UNION {[1 .. n -> Points] : n \in 0 .. MaxPlacements}

Configs ==
    [coordinates : CoordinateLists,
     scale_factor : ScaleFactors,
     apply_night_filter : BOOLEAN,
     mask_dilation_percent : Dilations]

\* Fixture files: opaque ones of several shapes and a fully transparent one
FixtureFiles ==
    {FixtureFile(1, 1, 255), FixtureFile(2, 1, 255),
     FixtureFile(1, 2, 0), FixtureFile(2, 2, 255)}

\* House sizes: narrow ones, and one with room for an unclipped padded box
HouseSizes == {<<W, MaxDim>> : W \in 1 .. MaxDim} \cup {<<4, 4>>}

Disks ==
    {[house |-> HouseFile(hs[1], hs[2]), fixture |-> f,
      compositeOut |-> NoImage, maskOut |-> NoImage] :
        hs \in HouseSizes, f \in FixtureFiles}

NoObjects == [house |-> None, fixture |-> None, composite |-> None, mask |-> None]

GeoOff == [pc |-> "off"]

\* __init__ (lines 15-34)
Init ==
    /\ cfg \in Configs
    /\ disk \in Disks
    /\ self = NoObjects
    /\ heap = [house |-> NoImage, fixture |-> NoImage,
               composite |-> NoImage, mask |-> NoImage]
    /\ trace = <<>>
    /\ raised = None
    /\ lastOp = "__init__"
    /\ geo = GeoOff

Commit(w, op) ==
    /\ self' = w.self
    /\ heap' = w.heap
    /\ disk' = w.disk
    /\ trace' = w.trace
    /\ raised' = w.raised
    /\ lastOp' = op
    /\ UNCHANGED <<cfg, geo>>

\* Each call draws the first step of it that fails, if any: opening the house
\* file, opening the fixture file, saving the composite, saving the mask
BuildComposite ==
    \E fail \in {None, "house", "fixture"} :
        Commit(build_composite(World, cfg, fail # "house", fail # "fixture"),
               "build_composite")

BuildMask ==
    \E fail \in {None, "house", "fixture"} :
        Commit(build_mask(World, cfg, fail # "house", fail # "fixture"),
               "build_mask")

Run ==
    \E fail \in {None, "house", "fixture", "composite", "mask"} :
        Commit(run(World, cfg, fail # "house", fail # "fixture",
                   fail # "composite", fail # "mask"),
               "run")

Next == BuildComposite \/ BuildMask \/ Run

Spec == Init /\ [][Next]_vars

----------------------------------------------------------------------------
(* Stand-alone geometry: _resize_fixture's sizes and _clamp_position applied *)
(* to inputs drawn from wider ranges, including the documented scenario of  *)
(* lines 137-163 (house 800x600, fixture 100x100, scale 0.2, centre         *)
(* (280, 490)).                                                             *)

GeoHouses == ((1 .. MaxGeo) \X (1 .. MaxGeo)) \cup {<<800, 600>>}

GeoFixtures == ((1 .. MaxGeoFix) \X (1 .. MaxGeoFix)) \cup {<<100, 100>>}

GeoCentres == ((-1 .. MaxGeo + 1) \X (-1 .. MaxGeo + 1)) \cup {<<280, 490>>}

InitGeo ==
    /\ cfg = [coordinates |-> <<>>, scale_factor |-> <<1, 1>>,
              apply_night_filter |-> FALSE, mask_dilation_percent |-> <<0, 1>>]
    /\ disk = [house |-> HouseFile(1, 1), fixture |-> FixtureFile(1, 1, 255),
               compositeOut |-> NoImage, maskOut |-> NoImage]
    /\ self = NoObjects
    /\ heap = [house |-> NoImage, fixture |-> NoImage,
               composite |-> NoImage, mask |-> NoImage]
    /\ trace = <<>>
    /\ raised = None
    /\ lastOp = "__init__"
    /\ \E hs \in GeoHouses, fx \in GeoFixtures, sf \in GeoScaleFactors,
          c \in GeoCentres :
          geo = [pc |-> "start", W |-> hs[1], H |-> hs[2],
                 ow |-> fx[1], oh |-> fx[2], scale_factor |-> sf,
                 cx |-> c[1], cy |-> c[2],
                 fw |-> 0, fh |-> 0, x |-> 0, y |-> 0]

GeoFrame == UNCHANGED <<cfg, disk, self, heap, trace, raised, lastOp>>

\* lines 43-44 and 75: fw, fh = fixture_resized.size
GeoResize ==
    /\ geo.pc = "start"
    /\ geo' = [geo EXCEPT !.pc = "resized",
                          !.fw = ScaledDim(geo.ow, geo.scale_factor),
                          !.fh = ScaledDim(geo.oh, geo.scale_factor)]
    /\ GeoFrame

\* line 77: x, y = self._clamp_position(cx, cy, fw, fh)
GeoClamp ==
    /\ geo.pc = "resized"
    /\ LET xy == _clamp_position(geo.cx, geo.cy, geo.fw, geo.fh, geo.W, geo.H)
       IN  geo' = [geo EXCEPT !.pc = "clamped", !.x = xy[1], !.y = xy[2]]
    /\ GeoFrame

NextGeo == GeoResize \/ GeoClamp

SpecGeo == InitGeo /\ [][NextGeo]_vars

----------------------------------------------------------------------------
(* Properties of the geometry (checked under SpecGeo) *)

Clamped == geo.pc = "clamped"

Resized == geo.pc \in {"resized", "clamped"}

\* C1 as stated: the clamped top-left always puts the resized overlay's
\* bounding box entirely inside the background, whatever the sizes.
C1_AlwaysInside ==
    Clamped => /\ 0 <= geo.x /\ geo.x + geo.fw <= geo.W
               /\ 0 <= geo.y /\ geo.y + geo.fh <= geo.H

\* C1 (amended): the clamped top-left is never negative; the bounding box lies
\* inside the background in each dimension in which the overlay fits
\* (fw <= W, fh <= H); in a dimension in which it does not fit the
\* coordinate is 0 and the overlay overhangs the far edge.
C1_InsideWhenFits ==
    Clamped =>
        /\ 0 <= geo.x /\ 0 <= geo.y
        /\ (geo.fw <= geo.W => geo.x + geo.fw <= geo.W)
        /\ (geo.fh <= geo.H => geo.y + geo.fh <= geo.H)
        /\ (geo.fw > geo.W => geo.x = 0 /\ geo.x + geo.fw > geo.W)
        /\ (geo.fh > geo.H => geo.y = 0 /\ geo.y + geo.fh > geo.H)

\* A fitting overlay whose unclamped box sticks out on the right and at the top
C1_Witness ==
    /\ Clamped
    /\ geo.fw <= geo.W /\ geo.fh <= geo.H
    /\ geo.cx - (geo.fw \div 2) + geo.fw > geo.W
    /\ geo.cy - (geo.fh \div 2) < 0
    /\ geo.x + geo.fw = geo.W /\ geo.y = 0

\* r is the rational dim * sf truncated to an integer, but at least 1
TruncatedAtLeastOne(dim, sf, r) ==
    /\ r >= 1
    /\ (dim * sf[1] < sf[2] => r = 1)
    /\ (dim * sf[1] >= sf[2] => r * sf[2] <= dim * sf[1] /\ dim * sf[1] < (r + 1) * sf[2])

\* C3 as stated: the resized width and height are max(1, round(original *
\* scale_factor)), the product rounded to the nearest integer.
C3_Rounded ==
    Resized => /\ geo.fw = Max(1, Round(geo.ow * geo.scale_factor[1], geo.scale_factor[2]))
               /\ geo.fh = Max(1, Round(geo.oh * geo.scale_factor[1], geo.scale_factor[2]))

\* C3 (amended): the resized width and height are max(1, int(original *
\* scale_factor)): the product is truncated toward zero, not rounded; the
\* 100x100 fixture scaled by 0.2 becomes 20x20.
C3_Truncated ==
    Resized =>
        /\ TruncatedAtLeastOne(geo.ow, geo.scale_factor, geo.fw)
        /\ TruncatedAtLeastOne(geo.oh, geo.scale_factor, geo.fh)
        /\ (geo.ow = 100 /\ geo.scale_factor = <<1, 5>> => geo.fw = 20)

\* A width whose scaled value has a fraction above one half and is cut down
C3_Witness ==
    /\ Resized
    /\ geo.ow * geo.scale_factor[1] > geo.scale_factor[2]
    /\ 2 * ((geo.ow * geo.scale_factor[1]) % geo.scale_factor[2]) > geo.scale_factor[2]
    /\ geo.fw * geo.scale_factor[2] < geo.ow * geo.scale_factor[1]

\* The centre is more than half the overlay's width from the left and right
\* edges and more than half its height from the top and bottom edges
WellInside ==
    /\ 2 * geo.cx > geo.fw /\ 2 * (geo.W - geo.cx) > geo.fw
    /\ 2 * geo.cy > geo.fh /\ 2 * (geo.H - geo.cy) > geo.fh

\* C4 as stated: for a centre well inside the background the top-left is
\* exactly (cx - fw/2, cy - fh/2), for odd sizes too.
C4_ExactHalf ==
    Clamped /\ WellInside =>
        /\ 2 * geo.x = 2 * geo.cx - geo.fw
        /\ 2 * geo.y = 2 * geo.cy - geo.fh

\* C4 (amended): for a centre well inside the background the top-left is
\* (cx - fw // 2, cy - fh // 2) with floor division: cx - fw/2 for an even
\* size, cx - (fw - 1)/2 for an odd one; 800x600, 20x20, (280, 490) gives
\* (270, 480).
C4_FloorHalf ==
    Clamped /\ WellInside =>
        /\ 2 * geo.x = 2 * geo.cx - geo.fw + (geo.fw % 2)
        /\ 2 * geo.y = 2 * geo.cy - geo.fh + (geo.fh % 2)
        /\ (geo.cx = 280 /\ geo.cy = 490 /\ geo.fw = 20 /\ geo.fh = 20
               => geo.x = 270 /\ geo.y = 480)

\* A centre well inside with an odd width and an even height
C4_Witness ==
    /\ Clamped /\ WellInside
    /\ geo.fw % 2 = 1 /\ geo.fw > 1
    /\ geo.fh % 2 = 0

----------------------------------------------------------------------------
(* Properties of the pipeline (checked under Spec) *)

\* The positions in the last call's trace of the library calls named `name`
Idx(name) == {i \in 1 .. Len(trace) : trace[i].ev = name}

IsPaste(e) == e.ev = "paste"

IsRectangle(e) == e.ev = "rectangle"

BgW == disk.house.width

BgH == disk.house.height

\* The size of the resized overlay for the files and configuration at hand
Fw == ScaledDim(disk.fixture.width, cfg.scale_factor)

Fh == ScaledDim(disk.fixture.height, cfg.scale_factor)

HasSize(img, w, h) ==
    img.width = w /\ img.height = h /\ DOMAIN img.px = Pixels(w, h)

\* C2: whenever self.composite is set its size is the background's (W, H),
\* and whenever self.mask is set its size is the background's (W, H), after
\* any sequence of build_composite, build_mask and run calls and for any
\* placement list; the saved files have that size too.
C2_SizesMatch ==
    /\ self.composite # None => HasSize(heap[self.composite], BgW, BgH)
    /\ self.mask # None => HasSize(heap[self.mask], BgW, BgH)
    /\ disk.compositeOut # NoImage => HasSize(disk.compositeOut, BgW, BgH)
    /\ disk.maskOut # NoImage => HasSize(disk.maskOut, BgW, BgH)

\* build_mask called first on a fresh instance, on a non-square background,
\* with two overlapping placements outside the background
C2_Witness ==
    /\ lastOp = "build_mask" /\ raised = None
    /\ self.composite = None /\ self.mask # None
    /\ BgW # BgH
    /\ Len(cfg.coordinates) = 2
    /\ cfg.coordinates[1] = cfg.coordinates[2]
    /\ cfg.coordinates[1][1] >= BgW

\* The integer pad with 2 * den * pad <= dim * num < 2 * den * (pad + 1):
\* int(dim * dilation / 2)
TruncatedPad(dim, dilation) ==
    CHOOSE k \in 0 .. dim * dilation[1] :
        /\ 2 * dilation[2] * k <= dim * dilation[1]
        /\ dim * dilation[1] < 2 * dilation[2] * (k + 1)

RoundedPad(dim, dilation) == Round(dim * dilation[1], 2 * dilation[2])

\* The clamped top-left: 0 where the overlay does not fit or the centre is
\* too close to the near edge, the far-most fitting position where the centre
\* is too close to the far edge, centre minus half the size otherwise
TopLeft(c, f, size) ==
    IF f > size \/ c - (f \div 2) < 0 THEN 0
    ELSE IF c - (f \div 2) > size - f THEN size - f
    ELSE c - (f \div 2)

PlacementX(i) == TopLeft(cfg.coordinates[i][1], Fw, BgW)

PlacementY(i) == TopLeft(cfg.coordinates[i][2], Fh, BgH)

White(img) == {p \in DOMAIN img.px : img.px[p] = 255}

SinglePlacementUnclipped(px, py) ==
    /\ Len(cfg.coordinates) = 1
    /\ PlacementX(1) - px >= 0 /\ PlacementX(1) + Fw + px <= BgW - 1
    /\ PlacementY(1) - py >= 0 /\ PlacementY(1) + Fh + py <= BgH - 1

MaskBuilt == lastOp \in {"build_mask", "run"} /\ Idx("new_mask") # {}

\* C6: build_mask blurs once, after every placement rectangle has been
\* drawn, with radius max(pad_x, pad_y) // 2 raised to 1 when that is 0: an
\* integer >= 1 for every padding >= 0.
C6_BlurOnceAfterRectangles ==
    MaskBuilt =>
        LET m == Max(TruncatedPad(Fw, cfg.mask_dilation_percent),
                     TruncatedPad(Fh, cfg.mask_dilation_percent))
        IN  /\ Cardinality(Idx("blur")) = 1
            /\ Cardinality(Idx("rectangle")) = Len(cfg.coordinates)
            /\ \A b \in Idx("blur") :
                 /\ \A r \in Idx("rectangle") : r < b
                 /\ trace[b].arg[1] >= 1
                 /\ (m < 2 => trace[b].arg[1] = 1)
                 /\ (m >= 2 => 2 * trace[b].arg[1] <= m /\ m <= 2 * trace[b].arg[1] + 1)
                 /\ heap[self.mask].blur = trace[b].arg[1]

\* build_mask with a dilation of 0 and two rectangles: radius 1
C6_Witness ==
    /\ MaskBuilt /\ lastOp = "build_mask"
    /\ cfg.mask_dilation_percent[1] = 0
    /\ Cardinality(Idx("rectangle")) = 2
    /\ heap[self.mask].blur = 1

SaveEvents(t) == {i \in 1 .. Len(t) : t[i].ev \in {"save_composite", "save_mask"}}

\* C7: a run in which opening the background or the overlay fails ends with
\* the error raised and leaves both output files as they were; a save happens
\* only after both images have been opened successfully.
C7_NoOutputOnLoadFailure ==
    [][ lastOp' = "run" =>
          /\ ((\E i \in 1 .. Len(trace') : trace'[i].ev = "open_failed") =>
                 /\ raised' = "OSError"
                 /\ SaveEvents(trace') = {}
                 /\ disk' = disk)
          /\ \A s \in SaveEvents(trace') :
                 /\ \E i \in 1 .. s - 1 : trace'[i].ev = "open_house"
                 /\ \E i \in 1 .. s - 1 : trace'[i].ev = "open_fixture"
      ]_vars

\* A run that failed on the overlay file after an earlier run had saved both
\* outputs
C7_Witness ==
    /\ lastOp = "run" /\ raised = "OSError"
    /\ Idx("open_house") # {} /\ Idx("open_failed") # {}
    /\ disk.compositeOut # NoImage /\ disk.maskOut # NoImage

\* C8: in every build_composite call the night filter is applied at most
\* once, before the first paste, and only when apply_night_filter is true.
C8_FilterOnceBeforePaste ==
    /\ Cardinality(Idx("night_filter")) <= 1
    /\ (Idx("night_filter") # {} => cfg.apply_night_filter)
    /\ \A f \in Idx("night_filter") : \A p \in Idx("paste") : f < p
    /\ self.composite # None =>
          \A p \in DOMAIN heap[self.composite].px :
              /\ heap[self.composite].px[p].night <= 1
              /\ (~cfg.apply_night_filter => heap[self.composite].px[p].night = 0)

\* A run with the filter enabled and two pastes
C8_Witness ==
    /\ lastOp = "run" /\ raised = None
    /\ cfg.apply_night_filter
    /\ Cardinality(Idx("night_filter")) = 1
    /\ Cardinality(Idx("paste")) = 2

Footprints ==
    UNION {{p \in Pixels(BgW, BgH) :
              /\ PlacementX(i) <= p[1] /\ p[1] < PlacementX(i) + Fw
              /\ PlacementY(i) <= p[2] /\ p[2] < PlacementY(i) + Fh} :
           i \in 1 .. Len(cfg.coordinates)}

\* C9: with the night filter disabled every composite pixel outside the
\* clamped footprint of every placement equals the loaded background's
\* pixel, and the loaded background itself is as it was loaded.
C9_BackgroundKeptOutsideFootprints ==
    (~cfg.apply_night_filter /\ self.composite # None) =>
        /\ \A p \in Pixels(BgW, BgH) \ Footprints :
              heap[self.composite].px[p] = heap[self.house].px[p]
        /\ \A p \in Pixels(BgW, BgH) :
              heap[self.house].px[p] = [src |-> p, night |-> 0, layers |-> 0, a |-> 255]

\* An unfiltered composite with pixels both under and outside the footprints
C9_Witness ==
    /\ lastOp = "build_composite" /\ raised = None
    /\ ~cfg.apply_night_filter
    /\ Pixels(BgW, BgH) \ Footprints # {}
    /\ \E p \in Footprints : heap[self.composite].px[p].layers > 0

\* C10: in a run the i-th paste and the i-th mask rectangle use the same
\* clamped top-left and the rectangle reaches from at most (x, y) to at least
\* (min(W, x + fw) - 1, min(H, y + fh) - 1); every composite pixel a paste
\* changed is white in the mask, for overlays larger than the background too.
C10_MaskCoversPaste ==
    /\ (lastOp = "run" /\ Idx("blur") # {}) =>
          LET P == SelectSeq(trace, IsPaste)
              R == SelectSeq(trace, IsRectangle)
          IN  /\ Len(P) = Len(cfg.coordinates) /\ Len(R) = Len(cfg.coordinates)
              /\ \A i \in 1 .. Len(P) :
                    /\ P[i].at = R[i].at
                    /\ R[i].arg[1] <= P[i].at[1]
                    /\ R[i].arg[2] <= P[i].at[2]
                    /\ R[i].arg[3] >= Min(BgW, P[i].at[1] + Fw) - 1
                    /\ R[i].arg[4] >= Min(BgH, P[i].at[2] + Fh) - 1
    /\ (self.composite # None /\ self.mask # None) =>
          \A p \in Pixels(BgW, BgH) :
              heap[self.composite].px[p].layers > 0 => heap[self.mask].px[p] = 255

\* A run with an opaque overlay wider than the background
C10_Witness ==
    /\ lastOp = "run" /\ raised = None
    /\ Fw > BgW
    /\ disk.fixture.alpha = 255
    /\ Len(cfg.coordinates) = 2
    /\ \E p \in Pixels(BgW, BgH) : heap[self.composite].px[p].layers = 2

====
